---- MODULE Spec2Model ----
(***************************************************************************)
(* Model of convert_to_movie.py (class SlideVideoGenerator and main):      *)
(* the filename index extraction, the image/audio matcher and the clip     *)
(* loop, concatenation, output and cleanup of generate_video.              *)
(*                                                                         *)
(* Filenames are sequences of one-character strings.  Times are integers   *)
(* in units of half a second (3.0 s = 6, 0.5 s = 1).  Media handles are    *)
(* records naming the resource that was opened.                            *)
(***************************************************************************)
EXTENDS Integers, Sequences, FiniteSets, TLC

VARIABLES
    directory,        \* the files of input_dir (set of filenames)
    verbose,          \* self.verbose
    pc,               \* position of the call
    image_files,      \* dict number -> image filename
    audio_files,      \* dict number -> audio filename
    pairs,            \* list of <<image, audio>> returned by find_matching_files
    report,           \* the unmatched-file warnings printed by find_matching_files
    pause_before,     \* argument of generate_video
    pause_after,      \* argument of generate_video
    resolution,       \* argument of generate_video: TRUE when a resolution is given
    i,                \* loop index of enumerate(slide_pairs)
    clips,            \* the list clips
    total_duration,   \* the running total
    opened,           \* media handles opened so far
    closed,           \* media handles closed so far
    final_video,      \* the local final_video: Undefined or its handle
    concat_input,     \* the list handed to concatenate_videoclips
    dir_created,      \* output_path.parent.mkdir has run
    file_written,     \* state of the output file: "none", "partial", "full"
    err,              \* the exception in flight or raised: NoError or a record
    exit_status       \* what main did with the outcome

vars == <<directory, verbose, pc, image_files, audio_files, pairs, report,
          pause_before, pause_after, resolution, i, clips, total_duration,
          opened, closed, final_video, concat_input, dir_created,
          file_written, err, exit_status>>

matchVars == <<image_files, audio_files, pairs, report>>
argVars   == <<pause_before, pause_after, resolution>>
loopVars  == <<i, clips, total_duration>>
mediaVars == <<opened, closed, final_video, concat_input>>
outVars   == <<dir_created, file_written>>

----------------------------------------------------------------------------
(* Bounds *)

\* most files in a directory of the pool
MaxFiles == 6
\* longest pause, in half seconds
MaxPause == 2
\* longest generated stem of SpecNames
MaxStemLen == 3

----------------------------------------------------------------------------
(* Filenames *)

Digits == {"0", "1", "2", "3", "4", "5", "6", "7", "8", "9"}

DigitValue(c) ==
    CASE c = "0" -> 0 [] c = "1" -> 1 [] c = "2" -> 2 [] c = "3" -> 3
      [] c = "4" -> 4 [] c = "5" -> 5 [] c = "6" -> 6 [] c = "7" -> 7
      [] c = "8" -> 8 [] c = "9" -> 9

image_extensions ==
    { <<".", "p", "n", "g">>, <<".", "j", "p", "g">>, <<".", "j", "p", "e", "g">>,
      <<".", "b", "m", "p">>, <<".", "t", "i", "f", "f">> }

audio_extensions ==
    { <<".", "w", "a", "v">>, <<".", "m", "p", "3">>, <<".", "a", "a", "c">>,
      <<".", "m", "4", "a">>, <<".", "o", "g", "g">> }

\* Path.glob("*" + ext): the name ends with ext
EndsWith(name, ext) ==
    /\ Len(name) >= Len(ext)
    /\ SubSeq(name, Len(name) - Len(ext) + 1, Len(name)) = ext

Glob(dir, ext) == {f \in dir : EndsWith(f, ext)}

\* return None
None == -1

\* re.findall(r'\d+', s): left to right, each maximal run of digits;
\* cur is the run being read, acc the runs already closed
RECURSIVE FindAllRuns(_, _, _, _)
FindAllRuns(s, k, cur, acc) ==
    IF k > Len(s)
    THEN IF cur = <<>> THEN acc ELSE Append(acc, cur)
    ELSE IF s[k] \in Digits
         THEN FindAllRuns(s, k + 1, Append(cur, s[k]), acc)
         ELSE FindAllRuns(s, k + 1, <<>>,
                          IF cur = <<>> THEN acc ELSE Append(acc, cur))

re_findall_digits(s) == FindAllRuns(s, 1, <<>>, <<>>)

\* int(text) of a string of decimal digits
RECURSIVE IntOf(_, _, _)
IntOf(text, k, acc) ==
    IF k > Len(text) THEN acc
    ELSE IntOf(text, k + 1, acc * 10 + DigitValue(text[k]))

int(text) == IntOf(text, 1, 0)

\* a plausible slip: numbers[0] in place of numbers[-1]
extract_first_number(filename) ==
    LET numbers == re_findall_digits(filename)
    IN  IF numbers # <<>> THEN int(numbers[1]) ELSE None

extract_number_from_filename(filename) ==
    LET numbers == re_findall_digits(filename)
    IN  IF numbers # <<>> THEN int(numbers[Len(numbers)]) ELSE None

----------------------------------------------------------------------------
(* The directories *)

slide01_png     == <<"s","l","i","d","e","0","1",".","p","n","g">>
slide02_png     == <<"s","l","i","d","e","0","2",".","p","n","g">>
narration01_wav == <<"n","a","r","r","a","t","i","o","n","0","1",".","w","a","v">>
narration02_wav == <<"n","a","r","r","a","t","i","o","n","0","2",".","w","a","v">>
img5_png        == <<"i","m","g","5",".","p","n","g">>
slide7_png      == <<"s","l","i","d","e","7",".","p","n","g">>
v2_7_png        == <<"v","2","_","7",".","p","n","g">>
slide7_jpg      == <<"s","l","i","d","e","7",".","j","p","g">>
narration7_ogg  == <<"n","a","r","r","a","t","i","o","n","7",".","o","g","g">>
cover_png       == <<"c","o","v","e","r",".","p","n","g">>
narration01_mp3 == <<"n","a","r","r","a","t","i","o","n","0","1",".","m","p","3">>
notes2_txt      == <<"n","o","t","e","s","2",".","t","x","t">>

\* the files the directories of the matcher are drawn from
FilePool ==
    { slide01_png, slide02_png, narration01_wav, narration02_wav, img5_png,
      slide7_png, v2_7_png, slide7_jpg, narration7_ogg, cover_png,
      narration01_mp3, notes2_txt }

\* the files the directories of a whole generate_video call are drawn from
VideoPool ==
    { slide01_png, slide02_png, narration01_wav, narration02_wav, img5_png,
      slide7_png, narration7_ogg }

Directories(pool) == {d \in SUBSET pool : Cardinality(d) <= MaxFiles}

\* audio lengths a file can have, in half seconds (2.0 s and 3.0 s)
Durations == {4, 6}

PauseValues == 0 .. MaxPause

----------------------------------------------------------------------------
(* Values *)

Undefined == [res |-> "undefined", pair |-> None, seg |-> "none"]

NoError == [type |-> "none", stage |-> "none", segment |-> None]

\* raise ValueError(...) of find_matching_files
NoPairsError == [type |-> "ValueError", stage |-> "match", segment |-> None]

\* an exception of the media backend, propagated as it was raised:
\* generate_video has no except clause and attaches nothing to it
BackendError(stage) == [type |-> "backend", stage |-> stage, segment |-> None]

NoReport == [printed |-> FALSE, missing_audio |-> {}, missing_images |-> {}]

EmptyDict == [n \in {} |-> <<>>]

\* d[k] = v
DictSet(d, k, v) == [n \in (DOMAIN d) \cup {k} |-> IF n = k THEN v ELSE d[n]]

----------------------------------------------------------------------------
(* find_matching_files *)

RECURSIVE Perms(_)
Perms(S) ==
    IF S = {} THEN {<<>>}
    ELSE UNION {{<<x>> \o p : p \in Perms(S \ {x})} : x \in S}

\* The orders in which the two nested loops can visit the files: the set of
\* extensions is iterated in some order, and for each extension glob lists
\* its files in some order.
RECURSIVE ListingsIn(_, _, _)
ListingsIn(dir, extOrder, k) ==
    IF k > Len(extOrder) THEN {<<>>}
    ELSE {listing \o rest : listing \in Perms(Glob(dir, extOrder[k])),
                            rest \in ListingsIn(dir, extOrder, k + 1)}

ScanOrders(dir, exts) ==
    LET present == {e \in exts : Glob(dir, e) # {}}
    IN  UNION {ListingsIn(dir, extOrder, 1) : extOrder \in Perms(present)}

\* the loop body, file by file: files[number] = file when number is not None
RECURSIVE ScanInto(_, _, _)
ScanInto(order, k, d) ==
    IF k > Len(order) THEN d
    ELSE LET number == extract_number_from_filename(order[k])
         IN  ScanInto(order, k + 1,
                      IF number # None THEN DictSet(d, number, order[k]) ELSE d)

\* a plausible slip: the common numbers taken in descending order
RECURSIVE sorted_descending(_)
sorted_descending(S) ==
    IF S = {} THEN <<>>
    ELSE LET m == CHOOSE x \in S : \A y \in S : x >= y
         IN  <<m>> \o sorted_descending(S \ {m})

\* sorted(numbers)
RECURSIVE sorted(_)
sorted(S) ==
    IF S = {} THEN <<>>
    ELSE LET m == CHOOSE x \in S : \A y \in S : x <= y
         IN  <<m>> \o sorted(S \ {m})

common_numbers(imgs, auds) == (DOMAIN imgs) \cap (DOMAIN auds)

\* a plausible slip: the error only for a directory without any indexed file
NothingIndexed(imgs, auds) == (DOMAIN imgs) = {} /\ (DOMAIN auds) = {}

\* line 93: if not common_numbers
NoCommonNumbers(imgs, auds) == common_numbers(imgs, auds) = {}

\* pairs.append((image_files[number], audio_files[number])) for number in sorted(...)
MakePairs(imgs, auds) ==
    LET order == sorted(common_numbers(imgs, auds))
    IN  [k \in 1 .. Len(order) |-> <<imgs[order[k]], auds[order[k]]>>]

\* lines 101-111: printed only by a verbose generator
MakeReport(imgs, auds) ==
    [printed        |-> TRUE,
     missing_audio  |-> (DOMAIN imgs) \ (DOMAIN auds),
     missing_images |-> (DOMAIN auds) \ (DOMAIN imgs)]

\* lines 69-77
ScanImages ==
    /\ pc = "scan_images"
    /\ \E order \in ScanOrders(directory, image_extensions) :
           image_files' = ScanInto(order, 1, EmptyDict)
    /\ pc' = "scan_audio"
    /\ UNCHANGED <<directory, verbose, audio_files, pairs, report, argVars,
                   loopVars, mediaVars, outVars, err, exit_status>>

\* lines 79-87
ScanAudio ==
    /\ pc = "scan_audio"
    /\ \E order \in ScanOrders(directory, audio_extensions) :
           audio_files' = ScanInto(order, 1, EmptyDict)
    /\ pc' = "make_pairs"
    /\ UNCHANGED <<directory, verbose, image_files, pairs, report, argVars,
                   loopVars, mediaVars, outVars, err, exit_status>>

\* lines 89-113: raise when nothing is common, else build, report and return
BuildPairs ==
    /\ pc = "make_pairs"
    /\ \/ /\ NoCommonNumbers(image_files, audio_files)
          /\ err' = NoPairsError
          /\ pc' = "raised"
          /\ UNCHANGED <<pairs, report>>
       \/ /\ ~NoCommonNumbers(image_files, audio_files)
          /\ pairs' = MakePairs(image_files, audio_files)
          /\ report' = IF verbose THEN MakeReport(image_files, audio_files)
                       ELSE report
          /\ pc' = "matched"
          /\ UNCHANGED err
    /\ UNCHANGED <<directory, verbose, image_files, audio_files, argVars,
                   loopVars, mediaVars, outVars, exit_status>>

----------------------------------------------------------------------------
(* generate_video *)

Handle(res, pair, seg) == [res |-> res, pair |-> pair, seg |-> seg]

FinalHandle == Handle("final", None, "concat")

NoAudio == <<>>

NotConcatenated == [called |-> FALSE, clips |-> <<>>]

\* a plausible slip: only the slide clips are rescaled, the pauses are not
PauseClipNotResized(image, duration, pair, seg, res) ==
    [kind |-> "pause", seg |-> seg, image |-> image, audio |-> NoAudio,
     duration |-> duration, resized |-> FALSE, pair |-> pair,
     handles |-> {Handle("image", pair, seg)}]

\* a plausible slip: the pause shows the image of the following pair
PauseClipOfNextPair(image, duration, pair, seg, res) ==
    [kind |-> "pause", seg |-> seg,
     image |-> pairs[IF pair + 2 <= Len(pairs) THEN pair + 2 ELSE pair + 1][1],
     audio |-> NoAudio,
     duration |-> duration, resized |-> res, pair |-> pair,
     handles |-> {Handle("image", pair, seg)}]

\* ImageClip(str(image_file), duration=...), after the optional resized():
\* resized() returns a copy that shares the opened image, so one handle
PauseClip(image, duration, pair, seg, res) ==
    [kind |-> "pause", seg |-> seg, image |-> image, audio |-> NoAudio,
     duration |-> duration, resized |-> res, pair |-> pair,
     handles |-> {Handle("image", pair, seg)}]

\* create_slide_clip: image_clip.with_audio(audio_clip) of the audio's length;
\* closing the clip is taken to release the image and the attached audio
SlideClip(image, audio, duration, pair, res) ==
    [kind |-> "slide", seg |-> "slide", image |-> image, audio |-> audio,
     duration |-> duration, resized |-> res, pair |-> pair,
     handles |-> {Handle("image", pair, "slide"), Handle("audio", pair, "slide")}]

\* a plausible slip: a pause before the first slide too
PauseBeforeEverySlide(idx, b) == b > 0

\* a plausible slip: the first pause only before the third slide
PauseBeforeOffByOne(idx, b) == idx > 1 /\ b > 0

\* line 186
PauseBeforeWanted(idx, b) == idx > 0 /\ b > 0

\* a plausible slip: a pause after the last slide too
PauseAfterEverySlide(idx, n, a) == idx < n /\ a > 0

\* line 205
PauseAfterWanted(idx, n, a) == idx < n - 1 /\ a > 0

\* the call: main passes the parsed arguments (lines 332-340)
GenerateVideo ==
    /\ pc = "start"
    /\ \E b \in PauseValues, a \in PauseValues, r \in BOOLEAN :
           /\ pause_before' = b
           /\ pause_after' = a
           /\ resolution' = r
    /\ pc' = "scan_images"
    /\ UNCHANGED <<directory, verbose, matchVars, loopVars, mediaVars,
                   outVars, err, exit_status>>

\* lines 171-177: the pairs are back; the guard of line 173 cannot fire,
\* find_matching_files never returns an empty list
EnterLoop ==
    /\ pc = "matched"
    /\ IF pairs = <<>>
       THEN /\ err' = [type |-> "ValueError", stage |-> "build", segment |-> None]
            /\ pc' = "raised"
            /\ UNCHANGED loopVars
       ELSE /\ clips' = <<>>
            /\ total_duration' = 0
            /\ i' = 0
            /\ pc' = "pause_before"
            /\ UNCHANGED err
    /\ UNCHANGED <<directory, verbose, matchVars, argVars, mediaVars,
                   outVars, exit_status>>

\* a plausible slip: the exception is swallowed and the output is made anyway
FailButWriteOutput(stage) ==
    /\ err' = BackendError(stage)
    /\ pc' = "mkdir"

\* an exception inside the try block: control goes to the finally clause
Fail(stage) ==
    /\ err' = BackendError(stage)
    /\ pc' = "finally"

\* lines 185-193
PauseBefore ==
    /\ pc = "pause_before"
    /\ LET image_file == pairs[i + 1][1]
           h == Handle("image", i, "before")
       IN  \/ /\ ~PauseBeforeWanted(i, pause_before)
              /\ pc' = "slide"
              /\ UNCHANGED <<clips, total_duration, opened, err>>
           \/ /\ PauseBeforeWanted(i, pause_before)
              /\ \/ /\ Fail("open_image")
                    /\ UNCHANGED <<clips, total_duration, opened>>
                 \/ /\ resolution
                    /\ opened' = opened \cup {h}
                    /\ Fail("resize")
                    /\ UNCHANGED <<clips, total_duration>>
                 \/ /\ opened' = opened \cup {h}
                    /\ clips' = Append(clips,
                          PauseClip(image_file, pause_before, i, "before", resolution))
                    /\ total_duration' = total_duration + pause_before
                    /\ pc' = "slide"
                    /\ UNCHANGED err
    /\ UNCHANGED <<directory, verbose, matchVars, argVars, i, closed,
                   final_video, concat_input, outVars, exit_status>>

\* lines 195-202, with create_slide_clip (lines 129-142)
CreateSlideClip ==
    /\ pc = "slide"
    /\ LET image_file == pairs[i + 1][1]
           audio_file == pairs[i + 1][2]
           ha == Handle("audio", i, "slide")
           hi == Handle("image", i, "slide")
       IN  \/ /\ Fail("open_audio")
              /\ UNCHANGED <<clips, total_duration, opened>>
           \/ /\ opened' = opened \cup {ha}
              /\ Fail("open_image")
              /\ UNCHANGED <<clips, total_duration>>
           \/ /\ resolution
              /\ opened' = opened \cup {ha, hi}
              /\ Fail("resize")
              /\ UNCHANGED <<clips, total_duration>>
           \/ \E duration \in Durations :
                 /\ opened' = opened \cup {ha, hi}
                 /\ clips' = Append(clips,
                       SlideClip(image_file, audio_file, duration, i, resolution))
                 /\ total_duration' = total_duration + duration
                 /\ pc' = "pause_after"
                 /\ UNCHANGED err
    /\ UNCHANGED <<directory, verbose, matchVars, argVars, i, closed,
                   final_video, concat_input, outVars, exit_status>>

\* lines 204-212, then the next iteration or the end of the loop
PauseAfter ==
    /\ pc = "pause_after"
    /\ LET image_file == pairs[i + 1][1]
           h == Handle("image", i, "after")
           next == IF i + 1 < Len(pairs) THEN "pause_before" ELSE "concat"
       IN  \/ /\ ~PauseAfterWanted(i, Len(pairs), pause_after)
              /\ i' = i + 1
              /\ pc' = next
              /\ UNCHANGED <<clips, total_duration, opened, err>>
           \/ /\ PauseAfterWanted(i, Len(pairs), pause_after)
              /\ \/ /\ Fail("open_image")
                    /\ UNCHANGED <<clips, total_duration, opened, i>>
                 \/ /\ resolution
                    /\ opened' = opened \cup {h}
                    /\ Fail("resize")
                    /\ UNCHANGED <<clips, total_duration, i>>
                 \/ /\ opened' = opened \cup {h}
                    /\ clips' = Append(clips,
                          PauseClip(image_file, pause_after, i, "after", resolution))
                    /\ total_duration' = total_duration + pause_after
                    /\ i' = i + 1
                    /\ pc' = next
                    /\ UNCHANGED err
    /\ UNCHANGED <<directory, verbose, matchVars, argVars, closed,
                   final_video, concat_input, outVars, exit_status>>

\* line 219
Concatenate ==
    /\ pc = "concat"
    /\ concat_input' = [called |-> TRUE, clips |-> clips]
    /\ \/ /\ Fail("concatenate")
          /\ UNCHANGED <<final_video, opened>>
       \/ /\ final_video' = FinalHandle
          /\ opened' = opened \cup {FinalHandle}
          /\ pc' = "mkdir"
          /\ UNCHANGED err
    /\ UNCHANGED <<directory, verbose, matchVars, argVars, loopVars, closed,
                   outVars, exit_status>>

\* lines 222-223
MakeOutputDir ==
    /\ pc = "mkdir"
    /\ \/ /\ err' = [type |-> "OSError", stage |-> "mkdir", segment |-> None]
          /\ pc' = "finally"
          /\ UNCHANGED dir_created
       \/ /\ dir_created' = TRUE
          /\ pc' = "write"
          /\ UNCHANGED err
    /\ UNCHANGED <<directory, verbose, matchVars, argVars, loopVars, mediaVars,
                   file_written, exit_status>>

\* lines 226-241: an interrupted write can leave a truncated file
WriteVideofile ==
    /\ pc = "write"
    /\ \/ /\ Fail("write")
          /\ file_written' \in {"none", "partial"}
       \/ /\ file_written' = "full"
          /\ pc' = "finally"
          /\ UNCHANGED err
    /\ UNCHANGED <<directory, verbose, matchVars, argVars, loopVars, mediaVars,
                   dir_created, exit_status>>

\* what closing every clip of the list releases
HandlesOf(cs) == UNION {cs[k].handles : k \in 1 .. Len(cs)}

\* the finally clause, lines 243-251.  close() of the final clip is not
\* guarded: when it raises, the exception leaves the clause before the loop
\* over clips.  An exception of a clip's close() is swallowed; the clip is
\* taken to be released either way.
Finally ==
    /\ pc = "finally"
    /\ \/ /\ final_video = Undefined
          /\ closed' = closed \cup HandlesOf(clips)
          /\ pc' = IF err = NoError THEN "returned" ELSE "raised"
          /\ UNCHANGED err
       \/ /\ final_video # Undefined
          /\ closed' = closed \cup {final_video} \cup HandlesOf(clips)
          /\ pc' = IF err = NoError THEN "returned" ELSE "raised"
          /\ UNCHANGED err
       \/ /\ final_video # Undefined
          /\ err' = BackendError("close_final")
          /\ pc' = "raised"
          /\ UNCHANGED closed
    /\ UNCHANGED <<directory, verbose, matchVars, argVars, loopVars, opened,
                   final_video, concat_input, outVars, exit_status>>

\* main, line 342
MainDone ==
    /\ pc = "returned"
    /\ exit_status' = "ok"
    /\ pc' = "exit"
    /\ UNCHANGED <<directory, verbose, matchVars, argVars, loopVars, mediaVars,
                   outVars, err>>

\* main, lines 344-346: the message is printed and the process exits with 1
MainCatch ==
    /\ pc = "raised"
    /\ exit_status' = "failed"
    /\ pc' = "exit"
    /\ UNCHANGED <<directory, verbose, matchVars, argVars, loopVars, mediaVars,
                   outVars, err>>

----------------------------------------------------------------------------
(* Specifications *)

InitCommon ==
    /\ verbose \in BOOLEAN
    /\ image_files = EmptyDict
    /\ audio_files = EmptyDict
    /\ pairs = <<>>
    /\ report = NoReport
    /\ pause_before = 0
    /\ pause_after = 0
    /\ resolution = FALSE
    /\ i = 0
    /\ clips = <<>>
    /\ total_duration = 0
    /\ opened = {}
    /\ closed = {}
    /\ final_video = Undefined
    /\ concat_input = NotConcatenated
    /\ dir_created = FALSE
    /\ file_written = "none"
    /\ err = NoError
    /\ exit_status = "running"

\* a generator constructed on a directory, generate_video not yet called
Init ==
    /\ directory \in Directories(VideoPool)
    /\ pc = "start"
    /\ InitCommon

Next ==
    \/ GenerateVideo
    \/ ScanImages
    \/ ScanAudio
    \/ BuildPairs
    \/ EnterLoop
    \/ PauseBefore
    \/ CreateSlideClip
    \/ PauseAfter
    \/ Concatenate
    \/ MakeOutputDir
    \/ WriteVideofile
    \/ Finally
    \/ MainDone
    \/ MainCatch

Spec == Init /\ [][Next]_vars

\* find_matching_files called on its own: on a directory of the pool, or on
\* one that holds a file of a generated name, alone or beside a matching pair
StemChars == {"a", "0", "1", "9"}

Stems == UNION {[1 .. n -> StemChars] : n \in 0 .. MaxStemLen}

GeneratedExtensions ==
    { <<".", "p", "n", "g">>, <<".", "w", "a", "v">>,
      <<".", "m", "p", "3">>, <<".", "m", "4", "a">>, <<".", "t", "x", "t">> }

GeneratedNames == {s \o e : s \in Stems, e \in GeneratedExtensions}

NamedDirectories ==
    {base \cup {name} : name \in GeneratedNames,
                        base \in {{}, {slide01_png, narration01_wav}}}

InitMatch ==
    /\ directory \in Directories(FilePool) \cup NamedDirectories
    /\ pc = "scan_images"
    /\ InitCommon

NextMatch ==
    \/ ScanImages
    \/ ScanAudio
    \/ BuildPairs

SpecMatch == InitMatch /\ [][NextMatch]_vars

----------------------------------------------------------------------------
(* What the claims speak of, stated without the code's own operators *)

IsImage(f) == \E e \in image_extensions : EndsWith(f, e)
IsAudio(f) == \E e \in audio_extensions : EndsWith(f, e)

HasDigit(name) == \E k \in 1 .. Len(name) : name[k] \in Digits

\* position of the last digit of a name that has one
LastDigitAt(name) ==
    CHOOSE k \in 1 .. Len(name) :
        /\ name[k] \in Digits
        /\ \A j \in (k + 1) .. Len(name) : name[j] \notin Digits

\* where the maximal run of digits that ends at the last digit starts
LastRunStart(name) ==
    CHOOSE st \in 1 .. LastDigitAt(name) :
        /\ \A j \in st .. LastDigitAt(name) : name[j] \in Digits
        /\ (st = 1 \/ name[st - 1] \notin Digits)

RECURSIVE Pow10(_)
Pow10(n) == IF n = 0 THEN 1 ELSE 10 * Pow10(n - 1)

RECURSIVE DecimalValue(_, _, _)
DecimalValue(name, k, last) ==
    IF k > last THEN 0
    ELSE DigitValue(name[k]) * Pow10(last - k) + DecimalValue(name, k + 1, last)

\* the integer written by the last maximal run of digits
LastRunValue(name) == DecimalValue(name, LastRunStart(name), LastDigitAt(name))

IndexedImages(dir) == {f \in dir : IsImage(f) /\ HasDigit(f)}
IndexedAudio(dir)  == {f \in dir : IsAudio(f) /\ HasDigit(f)}

ImageIndices(dir) == {LastRunValue(f) : f \in IndexedImages(dir)}
AudioIndices(dir) == {LastRunValue(f) : f \in IndexedAudio(dir)}

OnePerIndex(files) ==
    \A f, g \in files : LastRunValue(f) = LastRunValue(g) => f = g

Range(d) == {d[n] : n \in DOMAIN d}

PairedFiles == UNION {{pairs[k][1], pairs[k][2]} : k \in 1 .. Len(pairs)}

MatcherDone == pc \notin {"start", "scan_images", "scan_audio", "make_pairs"}

ScansDone == pc \notin {"start", "scan_images", "scan_audio"}

----------------------------------------------------------------------------
(* Claims about find_matching_files *)

\* C3: when the indexed images and the indexed audio files of the directory
\* carry the same N >= 1 indices, one file of each kind per index, the matcher
\* returns N pairs, the k-th pair holding the image and the audio of the k-th
\* smallest index, so that the indices ascend strictly.
C3_PairsAscending ==
    (/\ MatcherDone
     /\ ImageIndices(directory) = AudioIndices(directory)
     /\ ImageIndices(directory) # {}
     /\ OnePerIndex(IndexedImages(directory))
     /\ OnePerIndex(IndexedAudio(directory)))
    => /\ pc = "matched"
       /\ Len(pairs) = Cardinality(ImageIndices(directory))
       /\ \A k \in 1 .. Len(pairs) :
             /\ pairs[k][1] \in IndexedImages(directory)
             /\ pairs[k][2] \in IndexedAudio(directory)
             /\ LastRunValue(pairs[k][1]) = LastRunValue(pairs[k][2])
             /\ Cardinality({m \in ImageIndices(directory) :
                                m < LastRunValue(pairs[k][1])}) = k - 1
       /\ \A k \in 1 .. Len(pairs) - 1 :
             LastRunValue(pairs[k][1]) < LastRunValue(pairs[k + 1][1])

\* three pairs returned for the indices 1, 2 and 7
C3_Witness ==
    /\ pc = "matched"
    /\ directory = {slide01_png, narration01_wav, slide02_png, narration02_wav,
                    slide7_png, narration7_ogg}
    /\ Len(pairs) = 3

\* C4: when no index is carried by both an image and an audio file (also when
\* the directory holds no recognized file), the matcher raises its ValueError
\* ("no pair found") and returns no pair list.
C4_NoPairsRaises ==
    (MatcherDone /\ ImageIndices(directory) \cap AudioIndices(directory) = {})
    => /\ pc = "raised"
       /\ err = NoPairsError
       /\ pairs = <<>>

\* the error raised on a directory with an image and an audio of other indices
C4_Witness ==
    /\ pc = "raised"
    /\ err = NoPairsError
    /\ ImageIndices(directory) # {}
    /\ AudioIndices(directory) # {}
    /\ ImageIndices(directory) \cap AudioIndices(directory) = {}

\* C8: on a directory that holds only img5.png, a verbose matcher reports
\* index 5 among the images without audio and raises the no-pair error.
C8_ReportOnFailure ==
    (MatcherDone /\ verbose /\ directory = {img5_png})
    => /\ pc = "raised"
       /\ err = NoPairsError
       /\ report.printed
       /\ 5 \in report.missing_audio

\* C9: extract_number_from_filename gives the value of the last maximal run
\* of digits of a name and None for a name without digit; the index maps hold
\* exactly the indexed files' numbers, and a file without digit is in no map,
\* no pair and no report.
C9_LastRunIndexed ==
    /\ \A f \in directory :
          extract_number_from_filename(f) =
              IF HasDigit(f) THEN LastRunValue(f) ELSE None
    /\ ScansDone =>
          /\ DOMAIN image_files = ImageIndices(directory)
          /\ DOMAIN audio_files = AudioIndices(directory)
          /\ \A n \in DOMAIN image_files :
                image_files[n] \in IndexedImages(directory)
                /\ LastRunValue(image_files[n]) = n
          /\ \A n \in DOMAIN audio_files :
                audio_files[n] \in IndexedAudio(directory)
                /\ LastRunValue(audio_files[n]) = n
          /\ \A f \in directory :
                ~HasDigit(f) =>
                    f \notin Range(image_files) \cup Range(audio_files) \cup PairedFiles
          /\ report.missing_audio \subseteq ImageIndices(directory)
          /\ report.missing_images \subseteq AudioIndices(directory)

\* a name of two digit runs takes the last one, beside a file without digit,
\* in a run that pairs and reports
C9_Witness ==
    /\ pc = "matched"
    /\ report.printed
    /\ {cover_png, v2_7_png, narration7_ogg, img5_png} \subseteq directory
    /\ 7 \in DOMAIN image_files
    /\ image_files[7] = v2_7_png
    /\ 2 \notin DOMAIN image_files
    /\ report.missing_audio = {5}

----------------------------------------------------------------------------
(* Claims about generate_video *)

\* the for loop over the pairs has run to its end
LoopFinished ==
    /\ pc \in {"concat", "mkdir", "write", "finally", "returned", "raised", "exit"}
    /\ pairs # <<>>
    /\ i = Len(pairs)

generate_videoExited == pc \in {"returned", "raised", "exit"}

SlideClips == {k \in 1 .. Len(clips) : clips[k].kind = "slide"}
PauseClips == {k \in 1 .. Len(clips) : clips[k].kind = "pause"}

RECURSIVE SumOfDurations(_)
SumOfDurations(ks) ==
    IF ks = {} THEN 0
    ELSE LET k == CHOOSE x \in ks : TRUE
         IN  clips[k].duration + SumOfDurations(ks \ {k})

\* kind and length of every clip, in list order
Shape == [k \in 1 .. Len(clips) |-> <<clips[k].kind, clips[k].duration>>]

\* C1: when the loop over N >= 1 pairs finishes, total_duration is the sum of
\* the N audio durations plus (N-1) pauses before and (N-1) pauses after.
C1_TotalDuration ==
    LoopFinished =>
        /\ Cardinality(SlideClips) = Len(pairs)
        /\ total_duration = SumOfDurations(SlideClips)
                            + (Len(pairs) - 1) * pause_before
                            + (Len(pairs) - 1) * pause_after

\* three pairs, no pause before and a pause after
C1_Witness ==
    /\ pc = "concat"
    /\ Len(pairs) = 3
    /\ pause_before = 0
    /\ pause_after = 2

\* C2: when generate_video has returned or raised, every media handle that
\* was opened during the call has been closed.
C2_AllHandlesClosed == generate_videoExited => opened \subseteq closed

ScenarioDirectory ==
    {slide01_png, narration01_wav, slide02_png, narration02_wav}

\* slide01/narration01 of 3.0 s, slide02/narration02 of 2.0 s, both pauses
\* 0.5 s, and the loop has finished
ScenarioBuilt ==
    /\ LoopFinished
    /\ directory = ScenarioDirectory
    /\ pause_before = 1
    /\ pause_after = 1
    /\ \A k \in SlideClips :
          /\ clips[k].audio = narration01_wav => clips[k].duration = 6
          /\ clips[k].audio = narration02_wav => clips[k].duration = 4

\* C5 as claimed: the scenario builds [slide(3.0), pause(0.5), slide(2.0)],
\* 5.5 s in all.
C5_SinglePause ==
    ScenarioBuilt =>
        /\ Shape = << <<"slide", 6>>, <<"pause", 1>>, <<"slide", 4>> >>
        /\ total_duration = 11

\* C5 as amended: the scenario builds [slide(3.0), pause(0.5), pause(0.5),
\* slide(2.0)], the pause after slide 1 on slide 1's image and the pause
\* before slide 2 on slide 2's image, 6.0 s in all.
C5_TwoPauses ==
    ScenarioBuilt =>
        /\ Shape = << <<"slide", 6>>, <<"pause", 1>>, <<"pause", 1>>, <<"slide", 4>> >>
        /\ clips[2].image = slide01_png
        /\ clips[3].image = slide02_png
        /\ total_duration = 12

C5_Witness == ScenarioBuilt /\ pc = "concat"

\* C6: with one matched pair the clip list never holds a pause clip, and when
\* the loop has finished it holds the one slide clip, whose audio duration is
\* the total, whatever the pauses asked for.
C6_SinglePairNoPause ==
    Len(pairs) = 1 =>
        /\ PauseClips = {}
        /\ LoopFinished =>
              /\ Len(clips) = 1
              /\ clips[1].kind = "slide"
              /\ clips[1].image = pairs[1][1]
              /\ clips[1].audio = pairs[1][2]
              /\ total_duration = clips[1].duration

\* one pair built with both pauses asked for
C6_Witness ==
    /\ pc = "concat"
    /\ Len(pairs) = 1
    /\ pause_before > 0
    /\ pause_after > 0

\* the failures of the media backend, and those met while a segment is built
RenderStages ==
    {"open_audio", "open_image", "resize", "concatenate", "write"}
SegmentStages == {"open_audio", "open_image", "resize"}

\* C7: a failure to open an audio file or an image file, or of the encoding
\* backend, reaches the caller as a RenderError that carries the index of the
\* segment that failed.
C7_RenderError ==
    (generate_videoExited /\ err.stage \in RenderStages)
    => /\ err.type = "RenderError"
       /\ err.stage \in SegmentStages => err.segment = Len(clips)

\* place of a clip in playback order: pair by pair, before < slide < after
SegRank(seg) == CASE seg = "before" -> 0 [] seg = "slide" -> 1 [] seg = "after" -> 2
PlayKey(c) == 3 * c.pair + SegRank(c.seg)

ClipsOf(p, seg) == {k \in 1 .. Len(clips) : clips[k].pair = p /\ clips[k].seg = seg}

\* C10: the clips of pair p come after those of pair p-1, in the order pause
\* before (iff p > 0 and pauseBefore > 0), slide, pause after (iff p < n-1 and
\* pauseAfter > 0); every pause shows the image of its own pair for the pause
\* asked for; the list handed to concatenation is that list.
C10_PlaybackOrder ==
    /\ \A j, k \in 1 .. Len(clips) : j < k => PlayKey(clips[j]) < PlayKey(clips[k])
    /\ \A k \in 1 .. Len(clips) :
          LET c == clips[k]
          IN  /\ c.pair \in 0 .. Len(pairs) - 1
              /\ c.image = pairs[c.pair + 1][1]
              /\ c.seg = "slide" =>
                    c.kind = "slide" /\ c.audio = pairs[c.pair + 1][2]
              /\ c.seg = "before" =>
                    c.kind = "pause" /\ c.audio = NoAudio /\ c.duration = pause_before
              /\ c.seg = "after" =>
                    c.kind = "pause" /\ c.audio = NoAudio /\ c.duration = pause_after
    /\ LoopFinished =>
          \A p \in 0 .. Len(pairs) - 1 :
              /\ Cardinality(ClipsOf(p, "slide")) = 1
              /\ Cardinality(ClipsOf(p, "before")) =
                    IF p > 0 /\ pause_before > 0 THEN 1 ELSE 0
              /\ Cardinality(ClipsOf(p, "after")) =
                    IF p < Len(pairs) - 1 /\ pause_after > 0 THEN 1 ELSE 0
    /\ concat_input.called => concat_input.clips = clips

\* three pairs with different pauses, handed to concatenation
C10_Witness ==
    /\ pc = "mkdir"
    /\ Len(pairs) = 3
    /\ pause_before = 1
    /\ pause_after = 2
    /\ Len(clips) = 7

\* C11: with a target resolution every clip of the list, pause before, slide
\* and pause after alike, has been rescaled, and without one none has; the
\* list handed to concatenation never mixes rescaled and unscaled clips.
C11_UniformRescale ==
    /\ \A k \in 1 .. Len(clips) : clips[k].resized = resolution
    /\ concat_input.called =>
          /\ \A k \in 1 .. Len(concat_input.clips) :
                concat_input.clips[k].resized = resolution
          /\ \A j, k \in 1 .. Len(concat_input.clips) :
                concat_input.clips[j].resized = concat_input.clips[k].resized

\* a pause before, a slide and a pause after, all rescaled, handed to
\* concatenation
C11_Witness ==
    /\ concat_input.called
    /\ resolution
    /\ Len(pairs) = 3
    /\ \E k \in 1 .. Len(concat_input.clips) :
          concat_input.clips[k].seg = "before" /\ concat_input.clips[k].resized
    /\ \E k \in 1 .. Len(concat_input.clips) :
          concat_input.clips[k].seg = "after" /\ concat_input.clips[k].resized
    /\ \E k \in 1 .. Len(concat_input.clips) :
          concat_input.clips[k].seg = "slide" /\ concat_input.clips[k].resized

\* C12: when several files of one kind carry the same index, the matcher
\* emits one pair for that index, and the file it holds depends on the
\* directory alone: every order in which the extensions and the listing can
\* be iterated leaves the same file in the index maps.
C12_DuplicateChoiceFixed ==
    /\ ScansDone =>
          \A order \in ScanOrders(directory, image_extensions) :
              ScanInto(order, 1, EmptyDict) = image_files
    /\ ScansDone =>
          \A order \in ScanOrders(directory, audio_extensions) :
              ScanInto(order, 1, EmptyDict) = audio_files
    /\ pc = "matched" =>
          \A n \in ImageIndices(directory) \cap AudioIndices(directory) :
              /\ Cardinality({k \in 1 .. Len(pairs) :
                                 LastRunValue(pairs[k][1]) = n}) = 1
              /\ <<image_files[n], audio_files[n]>> \in Range(pairs)


\* C13: when the matcher finds no common index inside generate_video, the
\* call ends with that error and nothing else has happened: no clip opened,
\* no concatenation attempted, no output directory created, no file written.
\* The output directory is created and the file written only after every clip
\* of every pair has been built and the list has been concatenated.
C13_OutputOnlyAfterAllClips ==
    /\ (MatcherDone /\ ImageIndices(directory) \cap AudioIndices(directory) = {})
       => /\ pc \in {"raised", "exit"}
          /\ err = NoPairsError
          /\ opened = {}
          /\ closed = {}
          /\ clips = <<>>
          /\ total_duration = 0
          /\ concat_input = NotConcatenated
          /\ final_video = Undefined
          /\ ~dir_created
          /\ file_written = "none"
    /\ (dir_created \/ file_written # "none")
       => /\ LoopFinished
          /\ \A p \in 0 .. Len(pairs) - 1 :
                /\ Cardinality(ClipsOf(p, "slide")) = 1
                /\ Cardinality(ClipsOf(p, "before")) =
                      IF p > 0 /\ pause_before > 0 THEN 1 ELSE 0
                /\ Cardinality(ClipsOf(p, "after")) =
                      IF p < Len(pairs) - 1 /\ pause_after > 0 THEN 1 ELSE 0
          /\ HandlesOf(clips) \subseteq opened
          /\ concat_input = [called |-> TRUE, clips |-> clips]
          /\ final_video = FinalHandle
    /\ file_written # "none" => dir_created

\* generate_video called with pauses on a directory whose image and audio
\* carry different indices: the matcher's error and nothing else
C13_Witness ==
    /\ pc = "raised"
    /\ err = NoPairsError
    /\ directory = {img5_png, narration7_ogg}
    /\ pause_before = 1
    /\ pause_after = 1
    /\ resolution

====
